---- MODULE Spec2Model ----
(***************************************************************************)
(* State-machine model of tournament::Tournament (src/tournament/          *)
(* tournament.h): the player records, the rank sequence and the three      *)
(* operations updateRanks, computePlayerData and forbidPairs.              *)
(*                                                                         *)
(* The header defines the data types, invert, getPoints and                *)
(* unacceleratedScoreRankCompare; these are translated from it.  The       *)
(* bodies of the three operations are only declared there (lines 259-262); *)
(* they are modelled from sections 4.1-4.3 and 7 of the specification.     *)
(***************************************************************************)
EXTENDS Integers, Sequences, FiniteSets

\* ------------------------------------------------------------------ bounds

\* Number of slots of Tournament::players (ids 0 .. NumPlayers-1).
NumPlayers == 3
\* Longest match history of the ranking specification Spec.
RankRounds == 1
\* Longest colour history of the resolver specification SpecData.
ColorRounds == 5
\* Longest score history of the resolver specification SpecData.
ScoreRounds == 3
\* Most pairs in one forbidPairs call of SpecForbid.
MaxPairs == 2

\* ------------------------------------------------------- program constants

\* Tournament::pointsForWin and Tournament::pointsForDraw as initialised.
DefaultPointsForWin == 10
DefaultPointsForDraw == 5

PlayerIds == 0 .. (NumPlayers - 1)

\* enum Color
COLOR_WHITE == "White"
COLOR_BLACK == "Black"
COLOR_NONE == "None"
Color == {COLOR_WHITE, COLOR_BLACK, COLOR_NONE}

\* enum MatchScore
MATCH_SCORE_LOSS == "Loss"
MATCH_SCORE_DRAW == "Draw"
MATCH_SCORE_WIN == "Win"
MatchScore == {MATCH_SCORE_LOSS, MATCH_SCORE_DRAW, MATCH_SCORE_WIN}

VARIABLES
  players,        \* Tournament::players, id -> Player record
  playersByRank,  \* Tournament::playersByRank, sequence of ids
  playedRounds,   \* Tournament::playedRounds
  pointsForWin,   \* Tournament::pointsForWin
  pointsForDraw,  \* Tournament::pointsForDraw
  call,           \* the argument of a forbidPairs call being made: {} or {list}
  lastOp,         \* the operation that ran last ("load" after construction)
  err             \* the error the last operation signalled, or "none"

vars == <<players, playersByRank, playedRounds, pointsForWin, pointsForDraw,
          call, lastOp, err>>

\* ------------------------------------------------------------- data types

\* A mutant of invert: the colour is returned as it is.
invertIdentity(color) == color

\* A mutant of invert: COLOR_NONE is mapped to a colour.
invertNoneToWhite(color) ==
  IF color = COLOR_WHITE THEN COLOR_BLACK ELSE COLOR_WHITE

\* constexpr Color invert(const Color color)
invert(color) ==
  IF color = COLOR_WHITE THEN COLOR_BLACK
  ELSE IF color = COLOR_BLACK THEN COLOR_WHITE
  ELSE COLOR_NONE

\* Match::Match(opponent_, color_, matchScore_, gameWasPlayed_,
\*              participatedInPairing_)
Match(opponent_, color_, matchScore_, gameWasPlayed_, participatedInPairing_) ==
  [opponent |-> opponent_,
   color |-> color_,
   matchScore |-> matchScore_,
   gameWasPlayed |-> gameWasPlayed_,
   participatedInPairing |-> participatedInPairing_]

\* Match::Match(playerIndex): a round without opponent, colour or result.
MatchNoOpponent(playerIndex) ==
  Match(playerIndex, COLOR_NONE, MATCH_SCORE_LOSS, FALSE, FALSE)

\* A mutant of the Player constructor: isValid is left false.
PlayerNotValid(id_, points_, rating_, matches_, forbiddenPairs_) ==
  [matches |-> matches_,
   accelerations |-> <<>>,
   forbiddenPairs |-> forbiddenPairs_,
   id |-> id_,
   rankIndex |-> id_,
   rating |-> rating_,
   scoreWithoutAcceleration |-> points_,
   acceleration |-> 0,
   colorPreference |-> COLOR_NONE,
   absoluteColorPreference |-> FALSE,
   strongColorPreference |-> FALSE,
   isValid |-> FALSE]

\* Player::Player(id_, points_, rating_, matches_, forbiddenPairs_)
Player(id_, points_, rating_, matches_, forbiddenPairs_) ==
  [matches |-> matches_,
   accelerations |-> <<>>,
   forbiddenPairs |-> forbiddenPairs_,
   id |-> id_,
   rankIndex |-> id_,
   rating |-> rating_,
   scoreWithoutAcceleration |-> points_,
   acceleration |-> 0,
   colorPreference |-> COLOR_NONE,
   absoluteColorPreference |-> FALSE,
   strongColorPreference |-> FALSE,
   isValid |-> TRUE]

\* Player() = default, value-initialised as an element of Tournament::players:
\* a hole in the player ids.
PlayerDefault ==
  [matches |-> <<>>,
   accelerations |-> <<>>,
   forbiddenPairs |-> {},
   id |-> 0,
   rankIndex |-> 0,
   rating |-> 0,
   scoreWithoutAcceleration |-> 0,
   acceleration |-> 0,
   colorPreference |-> COLOR_NONE,
   absoluteColorPreference |-> FALSE,
   strongColorPreference |-> FALSE,
   isValid |-> FALSE]

\* Player::scoreWithAcceleration()
scoreWithAcceleration(player) ==
  player.scoreWithoutAcceleration + player.acceleration

\* ------------------------------------------------------------- comparator

\* Mutant: ties on the score are left unbroken.
compareScoreOnly(player0, player1) ==
  player0.scoreWithoutAcceleration < player1.scoreWithoutAcceleration

\* Mutant: the accelerated score is compared.
compareAccelerated(player0, player1) ==
  \/ scoreWithAcceleration(player0) < scoreWithAcceleration(player1)
  \/ /\ scoreWithAcceleration(player0) = scoreWithAcceleration(player1)
     /\ player1.rankIndex < player0.rankIndex

\* Mutant: the rankIndex operands of the tie-break are not crossed.
compareRankUncrossed(player0, player1) ==
  \/ player0.scoreWithoutAcceleration < player1.scoreWithoutAcceleration
  \/ /\ player0.scoreWithoutAcceleration = player1.scoreWithoutAcceleration
     /\ player0.rankIndex < player1.rankIndex

\* unacceleratedScoreRankCompare(player0, player1):
\*   std::tie(player0->scoreWithoutAcceleration, player1->rankIndex)
\*     < std::tie(player1->scoreWithoutAcceleration, player0->rankIndex)
unacceleratedScoreRankCompare(player0, player1) ==
  \/ player0.scoreWithoutAcceleration < player1.scoreWithoutAcceleration
  \/ /\ player0.scoreWithoutAcceleration = player1.scoreWithoutAcceleration
     /\ player1.rankIndex < player0.rankIndex

\* Mutant of getPoints: a loss scores like a draw.
getPointsLossAsDraw(matchScore) ==
  IF matchScore = MATCH_SCORE_WIN THEN pointsForWin ELSE pointsForDraw

\* Tournament::getPoints(matchScore)
getPoints(matchScore) ==
  IF matchScore = MATCH_SCORE_LOSS THEN 0
  ELSE IF matchScore = MATCH_SCORE_WIN THEN pointsForWin
  ELSE pointsForDraw

\* ------------------------------------------- 4.2 Rank Orderer (updateRanks)

\* Player a ranks above player b: the comparator, as a sort predicate over
\* descending order.
RanksAbove(ps, a, b) == unacceleratedScoreRankCompare(ps[b], ps[a])

\* Insert id into the ranked sequence seq, before the first element that it
\* ranks above.
RECURSIVE InsertByRank(_, _, _)
InsertByRank(ps, seq, id) ==
  IF seq = <<>> THEN <<id>>
  ELSE IF RanksAbove(ps, id, Head(seq)) THEN <<id>> \o seq
  ELSE <<Head(seq)>> \o InsertByRank(ps, Tail(seq), id)

\* The ranked sequence of the valid players among ids 0 .. n-1.
RECURSIVE RankOrderUpTo(_, _)
RankOrderUpTo(ps, n) ==
  IF n = 0 THEN <<>>
  ELSE IF ps[n - 1].isValid
       THEN InsertByRank(ps, RankOrderUpTo(ps, n - 1), n - 1)
       ELSE RankOrderUpTo(ps, n - 1)

\* The ranked sequence of all valid players.
RankOrder(ps) == RankOrderUpTo(ps, NumPlayers)

\* The 1-based position of id in seq (0 if absent).
PositionOf(seq, id) ==
  IF \E k \in 1 .. Len(seq) : seq[k] = id
  THEN CHOOSE k \in 1 .. Len(seq) : seq[k] = id
  ELSE 0

\* Each player of the sequence gets its 0-based position as rankIndex.
AssignRankIndexes(ps, seq) ==
  [i \in PlayerIds |->
     IF PositionOf(seq, i) > 0
     THEN [ps[i] EXCEPT !.rankIndex = PositionOf(seq, i) - 1]
     ELSE ps[i]]

\* void Tournament::updateRanks() &
updateRanks ==
  /\ call = {}
  /\ lastOp' = "updateRanks"
  /\ err' = "none"
  /\ playersByRank' = RankOrder(players)
  /\ players' = AssignRankIndexes(players, RankOrder(players))
  /\ UNCHANGED <<playedRounds, pointsForWin, pointsForDraw, call>>

\* ------------------- 4.1 Score & Color-Preference Resolver (computePlayerData)

\* A game that counts for the colour history.
ColoredGame(m) == m.gameWasPlayed /\ m.color # COLOR_NONE

\* A match that counts for the score: the player took part in the pairing,
\* or a result was recorded from a played game.
Qualifying(m) == m.participatedInPairing \/ m.gameWasPlayed

\* The impossible state of section 7: a result recorded for a round that was
\* neither played nor part of the pairing.
Inconsistent(m) ==
  /\ ~m.gameWasPlayed
  /\ ~m.participatedInPairing
  /\ m.matchScore # MATCH_SCORE_LOSS

HistoryInconsistent(player) ==
  \E k \in 1 .. Len(player.matches) : Inconsistent(player.matches[k])

\* The walk over the first n matches of a history: the score, the number of
\* games with each colour, and the colours of the last two coloured games.
RECURSIVE Walk(_, _)
Walk(matches, n) ==
  IF n = 0
  THEN [score |-> 0, white |-> 0, black |-> 0,
        last |-> COLOR_NONE, previous |-> COLOR_NONE]
  ELSE LET acc == Walk(matches, n - 1)
           m == matches[n]
           scored == IF Qualifying(m)
                     THEN [acc EXCEPT !.score = @ + getPoints(m.matchScore)]
                     ELSE acc
       IN IF ColoredGame(m)
          THEN [scored EXCEPT
                  !.white = @ + (IF m.color = COLOR_WHITE THEN 1 ELSE 0),
                  !.black = @ + (IF m.color = COLOR_BLACK THEN 1 ELSE 0),
                  !.previous = acc.last,
                  !.last = m.color]
          ELSE scored

\* The last two coloured games of the walk had the same colour.
RepeatedColor(acc) == acc.last # COLOR_NONE /\ acc.last = acc.previous

\* D = (#White played) - (#Black played)
ColorDifference(acc) == acc.white - acc.black

\* The preferred colour: after two games in a row with one colour the other
\* colour, regardless of D; otherwise the colour D is short of; with D = 0 the
\* inverse of the last colour played.
ResolvedColorPreference(acc) ==
  IF RepeatedColor(acc) THEN invert(acc.last)
  ELSE IF ColorDifference(acc) > 0 THEN COLOR_BLACK
  ELSE IF ColorDifference(acc) < 0 THEN COLOR_WHITE
  ELSE invert(acc.last)

\* Absolute: |D| >= 2, or the last two coloured games had one colour.  (The
\* third ground of section 4.1, a colour "assigned purely to compensate a
\* prior absolute imbalance", is not recorded in a Match and so cannot be
\* resolved from the history.)
ResolvedAbsolute(acc) ==
  \/ ColorDifference(acc) >= 2
  \/ ColorDifference(acc) <= -2
  \/ RepeatedColor(acc)

\* Mutant: every imbalance of one is reported as strong.
ResolvedStrongAnyRepeat(acc) ==
  ColorDifference(acc) \in {1, -1}

\* Strong: |D| = 1 and the last two coloured games did not have one colour.
ResolvedStrong(acc) ==
  /\ ColorDifference(acc) \in {1, -1}
  /\ ~RepeatedColor(acc)

\* The acceleration of the round about to be paired.
CurrentAcceleration(player) ==
  IF playedRounds < Len(player.accelerations)
  THEN player.accelerations[playedRounds + 1]
  ELSE 0

\* One player's record with its derived fields recomputed.
Resolved(player) ==
  LET acc == Walk(player.matches, Len(player.matches))
  IN [player EXCEPT
        !.scoreWithoutAcceleration = acc.score,
        !.acceleration = CurrentAcceleration(player),
        !.colorPreference = ResolvedColorPreference(acc),
        !.absoluteColorPreference = ResolvedAbsolute(acc),
        !.strongColorPreference = ResolvedStrong(acc)]

\* The valid players whose history holds an impossible state.
InconsistentPlayers ==
  {i \in PlayerIds : players[i].isValid /\ HistoryInconsistent(players[i])}

\* void Tournament::computePlayerData() &
\* The players are resolved in id order; the error is raised at the first
\* inconsistent history, leaving that player and the later ones as they were.
computePlayerData ==
  /\ call = {}
  /\ players' =
       [i \in PlayerIds |->
          IF players[i].isValid /\ \A b \in InconsistentPlayers : i < b
          THEN Resolved(players[i])
          ELSE players[i]]
  /\ err' = IF InconsistentPlayers = {} THEN "none" ELSE "DataIntegrityError"
  /\ lastOp' = "computePlayerData"
  /\ UNCHANGED <<playersByRank, playedRounds, pointsForWin, pointsForDraw, call>>

\* ------------------------------------- 4.3 Forbidden-Pair Builder (forbidPairs)

\* The deque of ids read as consecutive pairs.
PairsOf(list) ==
  [k \in 1 .. (Len(list) \div 2) |-> <<list[2 * k - 1], list[2 * k]>>]

\* The id names a valid player record.
IsValidId(ps, id) == id \in PlayerIds /\ ps[id].isValid

\* Mutant: self-pairs are not rejected.
ListErrorsNoSelfCheck(ps, list) ==
  {"InvalidReferenceError" : k \in {k \in 1 .. Len(list) : ~IsValidId(ps, list[k])}}

\* The errors a call with this list signals (none: the empty set).
ListErrors(ps, list) ==
  {"InvalidReferenceError" : k \in {k \in 1 .. Len(list) : ~IsValidId(ps, list[k])}}
  \cup
  {"CallerError" : k \in {k \in 1 .. Len(PairsOf(list)) :
                            PairsOf(list)[k][1] = PairsOf(list)[k][2]}}

\* Mutant: only the first id of the pair gets the other one.
forbidPairOneWay(ps, a, b) ==
  [ps EXCEPT ![a].forbiddenPairs = @ \cup {b}]

\* Each id of the pair is inserted into the other's forbidden set.
forbidPair(ps, a, b) ==
  [ps EXCEPT ![a].forbiddenPairs = @ \cup {b},
             ![b].forbiddenPairs = @ \cup {a}]

\* The first n pairs inserted.
RECURSIVE forbidAll(_, _, _)
forbidAll(ps, pairs, n) ==
  IF n = 0 THEN ps
  ELSE forbidPair(forbidAll(ps, pairs, n - 1), pairs[n][1], pairs[n][2])

\* void Tournament::forbidPairs(const std::deque<player_index> &) &
\* The whole list is validated before anything is inserted.
forbidPairs(list) ==
  /\ IF ListErrors(players, list) = {}
     THEN /\ players' = forbidAll(players, PairsOf(list), Len(PairsOf(list)))
          /\ err' = "none"
     ELSE /\ players' = players
          /\ err' \in ListErrors(players, list)
  /\ lastOp' = "forbidPairs"
  /\ call' = {}
  /\ UNCHANGED <<playersByRank, playedRounds, pointsForWin, pointsForDraw>>

\* The caller hands a deque to forbidPairs, which then runs as a whole.
passList(list) ==
  /\ call = {}
  /\ call' = {list}
  /\ UNCHANGED <<players, playersByRank, playedRounds, pointsForWin,
                 pointsForDraw, lastOp, err>>

\* ------------------------------------------------------------------ inputs

\* Sequences over S of length at most n.
SeqUpTo(S, n) == UNION {[1 .. k -> S] : k \in 0 .. n}

\* The orderings of the ids in S.
Orderings(S) ==
  {s \in [1 .. Cardinality(S) -> S] :
     \A j, k \in 1 .. Cardinality(S) : s[j] = s[k] => j = k}

\* The ids of S in ascending order.
Ascending(S) ==
  CHOOSE s \in Orderings(S) :
    \A j, k \in 1 .. Cardinality(S) : j < k => s[j] < s[k]

\* An id other than i, standing for the opponent of a game.
OpponentOf(i) == (i + 1) % NumPlayers

\* The deques of at most n pairs of ids.
PairLists(n) == UNION {[1 .. (2 * k) -> PlayerIds] : k \in 0 .. n}

\* The deques handed to forbidPairs where the claims are about the ranking or
\* the resolver: none, a pair, a self-pair.
FewLists == {<<>>, <<0, 1>>, <<1, 1>>}

\* Round records of the ranking specification, by kind: a bye scored as a
\* win, a bye scored as a loss, an inconsistent record.
RankRecord(i, kind) ==
  IF kind = "win" THEN Match(i, COLOR_NONE, MATCH_SCORE_WIN, FALSE, TRUE)
  ELSE IF kind = "loss" THEN Match(i, COLOR_NONE, MATCH_SCORE_LOSS, FALSE, TRUE)
  ELSE Match(i, COLOR_NONE, MATCH_SCORE_DRAW, FALSE, FALSE)

\* The kinds of record player i may carry: only the last id an inconsistent
\* one.
RankKinds(i) ==
  IF i = NumPlayers - 1 THEN {"win", "loss", "inconsistent"} ELSE {"win", "loss"}

\* Round records that differ in what counts for the colour history: games
\* with either colour, a forfeit with a colour, a bye.
ColorPool(i) ==
  {Match(OpponentOf(i), COLOR_WHITE, MATCH_SCORE_DRAW, TRUE, TRUE),
   Match(OpponentOf(i), COLOR_BLACK, MATCH_SCORE_DRAW, TRUE, TRUE),
   Match(OpponentOf(i), COLOR_WHITE, MATCH_SCORE_WIN, FALSE, TRUE),
   Match(i, COLOR_NONE, MATCH_SCORE_DRAW, FALSE, TRUE)}

\* Round records that differ in what counts for the score: every result of a
\* played game and of a bye, an absence, and an inconsistent record.
ScorePool(i) ==
  {Match(OpponentOf(i), COLOR_WHITE, r, TRUE, TRUE) : r \in MatchScore}
  \cup {Match(i, COLOR_NONE, r, FALSE, TRUE) : r \in MatchScore}
  \cup {MatchNoOpponent(i),
        Match(i, COLOR_NONE, MATCH_SCORE_WIN, FALSE, FALSE)}

\* Scores the loaded records may carry.
InitPoints == {0, DefaultPointsForWin}

\* Point schemes: <<pointsForWin, pointsForDraw>>.
PointConfigs ==
  {<<DefaultPointsForWin, DefaultPointsForDraw>>, <<3, 1>>}

\* The tournament after load: the records of the ids in loaded, holes
\* elsewhere, with the acceleration schedule accel for player accelerated.
Loaded(loaded, points, history, accelerated, accel) ==
  [i \in PlayerIds |->
     IF i \in loaded
     THEN [Player(i, points[i], 0, history[i], {}) EXCEPT
             !.accelerations = IF i = accelerated THEN accel ELSE <<>>]
     ELSE PlayerDefault]

\* ---------------------------------------------------------- specifications

\* Ranking: any set of loaded players, listed by ascending id, with any loaded scores and round records of any kind; the highest id
\* may be accelerated.
Init ==
  \E loaded \in SUBSET PlayerIds :
    \E rounds \in 0 .. RankRounds :
      \E points \in [loaded -> InitPoints] :
        \E kinds \in {h \in [loaded -> [1 .. rounds -> {"win", "loss", "inconsistent"}]] :
                        \A i \in loaded : \A k \in 1 .. rounds : h[i][k] \in RankKinds(i)} :
          \E accel \in {<<>>, <<20>>} :
            /\ players = Loaded(loaded, points,
                                [i \in loaded |-> [k \in 1 .. rounds |-> RankRecord(i, kinds[i][k])]],
                                NumPlayers - 1, accel)
            /\ playersByRank = Ascending(loaded)
            /\ playedRounds = rounds
            /\ pointsForWin = DefaultPointsForWin
            /\ pointsForDraw = DefaultPointsForDraw
            /\ call = {}
            /\ lastOp = "load"
            /\ err = "none"

Next ==
  \/ updateRanks
  \/ computePlayerData
  \/ \E list \in FewLists : call = {} /\ forbidPairs(list)

Spec == Init /\ [][Next]_vars

\* Forbidden pairs: every id loaded, or every id but the last; calls of up to
\* MaxPairs pairs.
InitForbid ==
  \E loaded \in {PlayerIds, PlayerIds \ {NumPlayers - 1}} :
    /\ players = Loaded(loaded, [i \in loaded |-> 0], [i \in loaded |-> <<>>],
                        NumPlayers, <<>>)
    /\ playersByRank = Ascending(loaded)
    /\ playedRounds = 0
    /\ pointsForWin = DefaultPointsForWin
    /\ pointsForDraw = DefaultPointsForDraw
    /\ call = {}
    /\ lastOp = "load"
    /\ err = "none"

NextForbid ==
  \/ updateRanks
  \/ computePlayerData
  \/ call = {} /\ \E list \in PairLists(MaxPairs) : passList(list)
  \/ \E list \in call : forbidPairs(list)

SpecForbid == InitForbid /\ [][NextForbid]_vars

\* Resolver: one loaded player (id 0) with any colour history of up to
\* ColorRounds rounds, or any score history of up to ScoreRounds rounds under
\* any of the point schemes.
InitData ==
  \E config \in PointConfigs :
    \E history \in
         IF config = <<DefaultPointsForWin, DefaultPointsForDraw>>
         THEN SeqUpTo(ColorPool(0), ColorRounds) \cup SeqUpTo(ScorePool(0), ScoreRounds)
         ELSE SeqUpTo(ScorePool(0), ScoreRounds) :
      /\ players = Loaded({0}, [i \in {0} |-> 0], [i \in {0} |-> history],
                          NumPlayers, <<>>)
      /\ playersByRank = <<0>>
      /\ playedRounds = Len(history)
      /\ pointsForWin = config[1]
      /\ pointsForDraw = config[2]
      /\ call = {}
      /\ lastOp = "load"
      /\ err = "none"

SpecData == InitData /\ [][Next]_vars

\* ------------------------------------------------------------------ claims

ValidIds == {i \in PlayerIds : players[i].isValid}

\* C1: playersByRank is a permutation of the ids of exactly the valid
\* players: every valid id occurs once, no other id occurs, its length never
\* exceeds the number of players, and it is empty when no player is valid.
C1_RankSequenceIsPermutationOfValid ==
  /\ \A i \in ValidIds :
       Cardinality({k \in 1 .. Len(playersByRank) : playersByRank[k] = i}) = 1
  /\ \A k \in 1 .. Len(playersByRank) :
       playersByRank[k] \in PlayerIds /\ players[playersByRank[k]].isValid
  /\ Len(playersByRank) <= NumPlayers
  /\ (ValidIds = {} => playersByRank = <<>>)

\* C1 witness: updateRanks has ordered two valid players beside a hole in the
\* ids, and the order is not the order of the ids.
C1_Witness ==
  /\ lastOp = "updateRanks"
  /\ Cardinality(ValidIds) = 2
  /\ Len(playersByRank) = 2
  /\ playersByRank[1] > playersByRank[2]
  /\ players[playersByRank[1]].scoreWithoutAcceleration
       > players[playersByRank[2]].scoreWithoutAcceleration

\* C2: an updateRanks step places A before B exactly when A's unaccelerated
\* score is higher, or the scores are equal and A's rankIndex before the step
\* was smaller; that is exactly unacceleratedScoreRankCompare(B, A).
C2_UpdateRanksOrdersByScoreThenRank ==
  [][updateRanks =>
       \A a, b \in ValidIds :
         a # b =>
           /\ (PositionOf(playersByRank', a) < PositionOf(playersByRank', b))
                <=> \/ players[a].scoreWithoutAcceleration
                         > players[b].scoreWithoutAcceleration
                    \/ /\ players[a].scoreWithoutAcceleration
                            = players[b].scoreWithoutAcceleration
                       /\ players[a].rankIndex < players[b].rankIndex
           /\ (PositionOf(playersByRank', a) < PositionOf(playersByRank', b))
                <=> unacceleratedScoreRankCompare(players[b], players[a])]_vars

\* C2 witness: after updateRanks two players with equal scores stand in the
\* order of their previous ranks, against the order of their ids, and a
\* player stands below another one in spite of a higher accelerated score.
C2_Witness ==
  /\ lastOp = "updateRanks"
  /\ \E a, b \in ValidIds :
       /\ a > b
       /\ players[a].scoreWithoutAcceleration = players[b].scoreWithoutAcceleration
       /\ players[a].rankIndex < players[b].rankIndex
  /\ \E c, d \in ValidIds :
       /\ PositionOf(playersByRank, c) < PositionOf(playersByRank, d)
       /\ scoreWithAcceleration(players[c]) < scoreWithAcceleration(players[d])

\* C3: right after updateRanks, running updateRanks again leaves
\* playersByRank and every rankIndex unchanged.
C3_UpdateRanksIdempotent ==
  lastOp = "updateRanks" =>
    /\ RankOrder(players) = playersByRank
    /\ AssignRankIndexes(players, RankOrder(players)) = players

\* C3 witness: updateRanks has ranked three players, two of them tied on the
\* score, in an order other than that of the ids.
C3_Witness ==
  /\ lastOp = "updateRanks"
  /\ Len(playersByRank) = 3
  /\ \E j, k \in 1 .. 3 :
       /\ j < k
       /\ playersByRank[j] > playersByRank[k]
       /\ players[playersByRank[j]].scoreWithoutAcceleration
            = players[playersByRank[k]].scoreWithoutAcceleration
  /\ \A k \in 1 .. 3 : players[playersByRank[k]].rankIndex = k - 1

\* C4: on the valid players the comparator is a strict total order
\* (irreflexive, exactly one direction for distinct players, transitive), and
\* the rankIndex values of valid players are pairwise distinct.
C4_ComparatorStrictTotalOrder ==
  /\ \A a \in ValidIds : ~unacceleratedScoreRankCompare(players[a], players[a])
  /\ \A a, b \in ValidIds :
       a # b =>
         /\ players[a].rankIndex # players[b].rankIndex
         /\ unacceleratedScoreRankCompare(players[a], players[b])
              # unacceleratedScoreRankCompare(players[b], players[a])
  /\ \A a, b, c \in ValidIds :
       /\ unacceleratedScoreRankCompare(players[a], players[b])
       /\ unacceleratedScoreRankCompare(players[b], players[c])
       => unacceleratedScoreRankCompare(players[a], players[c])

\* C4 witness: three valid players with re-assigned ranks, two of them with
\* equal scores, so that only the rankIndex orders them.
C4_Witness ==
  /\ Cardinality(ValidIds) = 3
  /\ lastOp = "computePlayerData"
  /\ \E a, b \in ValidIds :
       /\ a # b
       /\ players[a].scoreWithoutAcceleration = players[b].scoreWithoutAcceleration
       /\ players[a].rankIndex # a

\* The forbidden-opponent relation is symmetric on the valid players.
ForbiddenSymmetric(ps) ==
  \A x, y \in PlayerIds :
    ps[x].isValid /\ ps[y].isValid =>
      (y \in ps[x].forbiddenPairs <=> x \in ps[y].forbiddenPairs)

\* C5: every step leaves the forbidden-opponent relation symmetric and no
\* forbidden set smaller; a forbidPairs call that succeeds leaves each of its
\* pairs (a, b) with b in a's set and a in b's set; and a call whose pairs are
\* all forbidden already changes no player.
C5_ForbiddenPairsSymmetric ==
  [][/\ ForbiddenSymmetric(players')
     /\ \A x \in PlayerIds :
          players[x].forbiddenPairs \subseteq players'[x].forbiddenPairs
     /\ \A list \in call :
          forbidPairs(list) /\ err' = "none" =>
            /\ \A k \in 1 .. Len(PairsOf(list)) :
                 /\ PairsOf(list)[k][2]
                      \in players'[PairsOf(list)[k][1]].forbiddenPairs
                 /\ PairsOf(list)[k][1]
                      \in players'[PairsOf(list)[k][2]].forbiddenPairs
            /\ (\A k \in 1 .. Len(PairsOf(list)) :
                  PairsOf(list)[k][2]
                    \in players[PairsOf(list)[k][1]].forbiddenPairs)
                 => players' = players]_vars

\* C5 witness: forbidPairs has succeeded and two players forbid each other
\* while a third valid player is forbidden to nobody.
C5_Witness ==
  /\ lastOp = "forbidPairs"
  /\ err = "none"
  /\ \E a, b, c \in ValidIds :
       /\ a # b
       /\ b \in players[a].forbiddenPairs
       /\ a \in players[b].forbiddenPairs
       /\ players[c].forbiddenPairs = {}

\* The list names an id without a valid player record.
NamesInvalidId(list) ==
  \E k \in 1 .. Len(list) :
    list[k] \notin PlayerIds \/ ~players[list[k]].isValid

\* The list holds a self-pair (a, a).
HoldsSelfPair(list) ==
  \E j \in 1 .. (Len(list) \div 2) : list[2 * j - 1] = list[2 * j]

\* C6: a forbidPairs call whose list names an id without a valid player
\* record, or holds a self-pair, signals an error (InvalidReferenceError for
\* the former alone, the caller error for the latter alone) and changes no
\* player's forbidden set.
C6_RejectedCallCommitsNothing ==
  [][\A list \in call :
       forbidPairs(list) /\ (NamesInvalidId(list) \/ HoldsSelfPair(list)) =>
         /\ err' \in {"InvalidReferenceError", "CallerError"}
         /\ (~HoldsSelfPair(list) => err' = "InvalidReferenceError")
         /\ (~NamesInvalidId(list) => err' = "CallerError")
         /\ \A i \in PlayerIds :
              players'[i].forbiddenPairs = players[i].forbiddenPairs]_vars

\* C6 witness: a forbidPairs call has been rejected as a caller error while
\* two valid players that forbid nobody stand in the tournament.
C6_Witness ==
  /\ lastOp = "forbidPairs"
  /\ err = "CallerError"
  /\ \E a, b \in ValidIds :
       /\ a # b
       /\ players[a].forbiddenPairs = {}
       /\ players[b].forbiddenPairs = {}

\* The rounds of a history that count for the score, by result.
RoundsScoring(ms, result) ==
  {k \in 1 .. Len(ms) :
     /\ ms[k].matchScore = result
     /\ (ms[k].participatedInPairing \/ ms[k].gameWasPlayed)}

\* The resolver has run to its end.
Computed == lastOp = "computePlayerData" /\ err = "none"

\* C7: after computePlayerData the score of every valid player is
\* pointsForWin for each qualifying win plus pointsForDraw for each
\* qualifying draw; losses add nothing.
C7_ScoreIsSumOfPoints ==
  Computed =>
    \A i \in ValidIds :
      players[i].scoreWithoutAcceleration
        = pointsForWin * Cardinality(RoundsScoring(players[i].matches, MATCH_SCORE_WIN))
          + pointsForDraw * Cardinality(RoundsScoring(players[i].matches, MATCH_SCORE_DRAW))

\* C7 witness: [Win, Win, Draw] under 10 and 5 points has given 25.
C7_Witness ==
  /\ Computed
  /\ pointsForWin = 10
  /\ pointsForDraw = 5
  /\ Len(players[0].matches) = 3
  /\ players[0].matches[1].matchScore = MATCH_SCORE_WIN
  /\ players[0].matches[2].matchScore = MATCH_SCORE_WIN
  /\ players[0].matches[3].matchScore = MATCH_SCORE_DRAW
  /\ \A k \in 1 .. 3 : players[0].matches[k].gameWasPlayed
  /\ players[0].scoreWithoutAcceleration = 25

\* The rounds of a history with a played, coloured game.
ColoredRounds(ms) ==
  {k \in 1 .. Len(ms) : ms[k].gameWasPlayed /\ ms[k].color # COLOR_NONE}

\* The latest round of a non-empty set of rounds.
Latest(rounds) == CHOOSE k \in rounds : \A j \in rounds : j <= k

\* D = #White - #Black over the coloured games.
DifferenceOf(ms) ==
  Cardinality({k \in ColoredRounds(ms) : ms[k].color = COLOR_WHITE})
    - Cardinality({k \in ColoredRounds(ms) : ms[k].color = COLOR_BLACK})

\* The two most recent coloured games both had colour c.
LastTwoWere(ms, c) ==
  /\ Cardinality(ColoredRounds(ms)) >= 2
  /\ ms[Latest(ColoredRounds(ms))].color = c
  /\ ms[Latest(ColoredRounds(ms) \ {Latest(ColoredRounds(ms))})].color = c

LastTwoSame(ms) == LastTwoWere(ms, COLOR_WHITE) \/ LastTwoWere(ms, COLOR_BLACK)

\* C8: after computePlayerData a player whose two most recent coloured games
\* had the same colour has an absolute preference for the other colour,
\* whatever D is.
C8_RepeatedColorGivesAbsolutePreference ==
  Computed =>
    \A i \in ValidIds :
      /\ LastTwoWere(players[i].matches, COLOR_WHITE) =>
           /\ players[i].absoluteColorPreference
           /\ players[i].colorPreference = COLOR_BLACK
      /\ LastTwoWere(players[i].matches, COLOR_BLACK) =>
           /\ players[i].absoluteColorPreference
           /\ players[i].colorPreference = COLOR_WHITE

\* C8 witness: two Whites in a row with D < 0 have given an absolute
\* preference for Black.
C8_Witness ==
  /\ Computed
  /\ LastTwoWere(players[0].matches, COLOR_WHITE)
  /\ DifferenceOf(players[0].matches) < 0
  /\ players[0].absoluteColorPreference
  /\ players[0].colorPreference = COLOR_BLACK

\* The preference D alone determines: Black if D > 0, White if D < 0, and
\* with D = 0 the other colour than that of the latest coloured game, or
\* None (neither absolute nor strong) without a coloured game.
PreferenceFollowsDifference(p) ==
  /\ DifferenceOf(p.matches) > 0 => p.colorPreference = COLOR_BLACK
  /\ DifferenceOf(p.matches) < 0 => p.colorPreference = COLOR_WHITE
  /\ DifferenceOf(p.matches) = 0 /\ ColoredRounds(p.matches) # {} =>
       /\ p.colorPreference # COLOR_NONE
       /\ p.colorPreference # p.matches[Latest(ColoredRounds(p.matches))].color
  /\ ColoredRounds(p.matches) = {} =>
       /\ p.colorPreference = COLOR_NONE
       /\ ~p.absoluteColorPreference
       /\ ~p.strongColorPreference

====
